---- MODULE Spec2Model ----
(***************************************************************************)
(* Black Label Luxury Rentals API (src/main.py, src/schemas.py).           *)
(*                                                                         *)
(* The state is the document store behind the handlers (the "vehicle",     *)
(* "booking" and "lead" collections), the /tmp directory the upload        *)
(* handler writes to, the store handle `db`, the server clock, and the     *)
(* last request with its response.  Every route handler of main.py is one  *)
(* action, except upload_file, which is a coroutine with an await point    *)
(* and is modelled step by step.                                           *)
(*                                                                         *)
(* database.py (db, create_document, get_documents) is not among the       *)
(* sources; its two functions are modelled from section 4.2 of the         *)
(* specification.                                                          *)
(***************************************************************************)
EXTENDS Integers, Sequences, FiniteSets, TLC

VARIABLES
    vehicle,    \* the "vehicle" collection, in store iteration order
    booking,    \* the "booking" collection
    lead,       \* the "lead" collection
    nextOid,    \* the store's generator of identifiers
    now,        \* the server clock (datetime.utcnow())
    db,         \* the module-level store handle: None or "handle"
    environ,    \* the process environment (DATABASE_URL, DATABASE_NAME)
    req,        \* the last request served (or the last step of the environment)
    resp,       \* its response
    files,      \* /tmp: file name -> content (None when the file is absent)
    up,         \* the upload coroutines in flight
    loop,       \* the coroutines between two await points: {} or {p}
    lastWrite   \* history: per file name, the content of the last write step

vars == <<vehicle, booking, lead, nextOid, now, db, environ, req, resp, files, up, loop, lastWrite>>

None == "None"

----------------------------------------------------------------------------
(* Bounds of the model.                                                    *)

MaxVehicles == 2
MaxBookings == 1
MaxLeads == 1
MaxClock == 2
MaxMakeLen == 3
MaxStoredMakeLen == 2
MaxErrLen == 82
MaxCollections == 12
MaxBytes == 1
MaxInFlight == 2

----------------------------------------------------------------------------
(* Strings that the code inspects character by character are sequences of  *)
(* one-character strings.                                                  *)

Chars == {"f", "F", "e", ".", "*", "|"}

StringsUpTo(S, n) == UNION {[1..k -> S] : k \in 0..n}

\* str.lower() on one character, as the "i" option of the pattern folds case.
Lower(c) == IF c = "F" THEN "f" ELSE c

LowerStr(s) == [i \in 1..Len(s) |-> Lower(s[i])]

Min(a, b) == IF a <= b THEN a ELSE b

\* s[:n]
Take(s, n) == SubSeq(s, 1, Min(Len(s), n))

----------------------------------------------------------------------------
(* The pattern language of the store's $regex operator, for the characters *)
(* of Chars: literals, '.', a postfix '*', '|' between alternatives, and   *)
(* the anchors '^' and '$' that list_vehicles puts around the filter.      *)

\* The positions of '|' in p, with 0 and Len(p)+1 as sentinels.
Bars(p) == {0, Len(p) + 1} \cup {i \in 1..Len(p) : p[i] = "|"}

\* The alternatives of p: the maximal runs between two consecutive bars.
Alternatives(p) ==
    {<<a, b>> \in Bars(p) \X Bars(p) :
        a < b /\ \A c \in Bars(p) : ~(a < c /\ c < b)}

\* One pattern atom against one character, under the "i" option.
AtomMatch(a, c) == a = "." \/ Lower(a) = Lower(c)

\* Does p[i..hi], anchored at s[j], match?  With endAnchor the match must
\* end at the end of s.
RECURSIVE MatchHere(_, _, _, _, _, _)
MatchHere(p, i, hi, s, j, endAnchor) ==
    IF i > hi
    THEN (~endAnchor) \/ j = Len(s) + 1
    ELSE IF i + 1 <= hi /\ p[i + 1] = "*"
    THEN \E k \in 0..(Len(s) + 1 - j) :
            /\ \A x \in j..(j + k - 1) : AtomMatch(p[i], s[x])
            /\ MatchHere(p, i + 2, hi, s, j + k, endAnchor)
    ELSE /\ j <= Len(s)
         /\ AtomMatch(p[i], s[j])
         /\ MatchHere(p, i + 1, hi, s, j + 1, endAnchor)

\* One alternative p[a+1..b-1]: a leading '^' pins the start, a trailing
\* '$' pins the end; without them the alternative may match anywhere in s.
AlternativeMatch(p, a, b, s) ==
    LET startAnchor == a + 1 < b /\ p[a + 1] = "^"
        endAnchor == a + 1 < b /\ p[b - 1] = "$"
        lo == IF startAnchor THEN a + 2 ELSE a + 1
        hi == IF endAnchor THEN b - 2 ELSE b - 1
        starts == IF startAnchor THEN {1} ELSE 1..(Len(s) + 1)
    IN \E j \in starts : MatchHere(p, lo, hi, s, j, endAnchor)

\* {"$regex": p, "$options": "i"} applied to the string s (a search).
RegexSearch(p, s) ==
    \E ab \in Alternatives(p) : AlternativeMatch(p, ab[1], ab[2], s)

\* A filter string whose pattern compiles: every '*' follows a literal or '.'.
Compiles(m) ==
    \A i \in 1..Len(m) :
        m[i] = "*" => (i > 1 /\ m[i - 1] \notin {"*", "|"})

----------------------------------------------------------------------------
(* Schemas (src/schemas.py).  A record is a function from field names to   *)
(* values; None stands for Python's None.                                  *)

\* Vehicle: the fields the handlers filter on, and `year` for the fields
\* that are only carried.
VehicleFields == {"slug", "year", "make", "type", "drive_mode"}

VehicleTypes == {"supercar", "suv", "luxury", "sedan", "convertible"}

VehicleDriveModes == {"self-drive", "chauffeur", "both"}

BookingRequired ==
    {"vehicle_id", "first_name", "last_name", "email", "phone",
     "start_date", "end_date"}

BookingDefaults ==
    [preferred_contact |-> "whatsapp", delivery_location |-> None,
     occasion |-> None, driver_age_confirmed |-> FALSE,
     license_upload_url |-> None, insurance_upload_url |-> None,
     selfie_upload_url |-> None, drive_mode |-> None, addons |-> <<>>,
     notes |-> None, status |-> "new"]

BookingFields == BookingRequired \cup DOMAIN BookingDefaults

BookingStatuses == {"new", "reviewing", "approved", "declined", "canceled"}

BookingDriveModes == {None, "self-drive", "chauffeur"}

\* Does the request body pass Booking's validation?
BookingValid(body) ==
    /\ BookingRequired \subseteq DOMAIN body
    /\ "status" \in DOMAIN body => body["status"] \in BookingStatuses
    /\ "drive_mode" \in DOMAIN body => body["drive_mode"] \in BookingDriveModes
    /\ "driver_age_confirmed" \in DOMAIN body
          => body["driver_age_confirmed"] \in BOOLEAN

\* Booking with the status set by the server, whatever the body says.
Booking_StatusReset(body) ==
    [f \in BookingFields |->
        IF f \in DOMAIN body /\ f # "status" THEN body[f] ELSE BookingDefaults[f]]

\* Booking(**body): the declared fields, defaults where the body has none.
Booking(body) ==
    [f \in BookingFields |->
        IF f \in DOMAIN body THEN body[f] ELSE BookingDefaults[f]]

\* Lead(source=..., form_type=..., payload=...): status takes its default.
Lead(source, form_type, payload) ==
    [source |-> source, form_type |-> form_type, payload |-> payload,
     status |-> "new"]

\* QuotePayload: nine optional fields, all defaulting to None.
QuotePayloadFields ==
    {"vehicle_slug", "vehicle_id", "drive_mode", "start_date", "end_date",
     "delivery_location", "occasion", "addons", "utm"}

\* QuotePayload(**body).model_dump(): the declared fields only; a key of
\* the body that the model does not declare is ignored.
QuotePayload(body) ==
    [f \in QuotePayloadFields |-> IF f \in DOMAIN body THEN body[f] ELSE None]

QuoteRequestRequired == {"first_name", "last_name", "email", "phone", "payload"}

QuoteRequestValid(body) == QuoteRequestRequired \subseteq DOMAIN body

\* QuoteRequest(**body): preferred_contact defaults to "whatsapp".
QuoteRequest(body) ==
    [first_name |-> body["first_name"], last_name |-> body["last_name"],
     email |-> body["email"], phone |-> body["phone"],
     preferred_contact |->
        IF "preferred_contact" \in DOMAIN body
        THEN body["preferred_contact"] ELSE "whatsapp",
     payload |-> QuotePayload(body["payload"])]

SCHEMA_MODELS ==
    {"vehicle", "booking", "testimonial", "blogpost", "faq", "service", "lead"}

----------------------------------------------------------------------------
(* The persistence gateway (database.py, specification section 4.2).       *)

HexDigits ==
    <<"0", "1", "2", "3", "4", "5", "6", "7",
      "8", "9", "a", "b", "c", "d", "e", "f">>

\* The n low hexadecimal digits of oid, most significant first.
RECURSIVE Hex(_, _)
Hex(oid, n) ==
    IF n = 0 THEN <<>>
    ELSE Append(Hex(oid \div 16, n - 1), HexDigits[(oid % 16) + 1])

\* An identifier is twelve bytes; its string form has two digits per byte.
OidWidth == 12 * 2

\* str(ObjectId)
ObjectIdStr(oid) == Hex(oid, OidWidth)

\* The document the store keeps for a record: the record and its identifier.
Document(data, oid) ==
    [f \in DOMAIN data \cup {"_id"} |-> IF f = "_id" THEN oid ELSE data[f]]

\* One condition of a filter against one value.
Eq(value) == [kind |-> "eq", value |-> value]

Regex(pattern) == [kind |-> "regex", pattern |-> pattern]

Satisfies(value, cond) ==
    IF cond.kind = "regex" THEN RegexSearch(cond.pattern, value)
    ELSE value = cond.value

\* A document against a filter: every condition of the filter holds.
Selected(doc, filters) ==
    \A f \in DOMAIN filters : f \in DOMAIN doc /\ Satisfies(doc[f], filters[f])

\* The limit of a query that gives none.
NoLimit == 0

\* get_documents(collection, filters, limit): the documents the filter
\* selects, in store order, at most `limit` of them (None: all).
get_documents(collection, filters, limit) ==
    LET Test(doc) == Selected(doc, filters)
        found == SelectSeq(collection, Test)
    IN IF limit = NoLimit THEN found ELSE Take(found, limit)

\* create_document(collection, data): the collection after the insert.
create_document(collection, data) == Append(collection, Document(data, nextOid))

----------------------------------------------------------------------------
(* The HTTP API layer (src/main.py).  Each handler records the request it  *)
(* served in req and its answer in resp: `status` is the HTTP status,      *)
(* `result` the handler's return value and `body` what leaves the server   *)
(* once the route's response_model has been applied.                       *)

store == <<vehicle, booking, lead, nextOid>>
disk == <<files, up, loop, lastWrite>>
process == <<db, environ>>

\* An absent make filter (the other filters are plain strings, absent: None).
NoMake == <<None>>

\* No request has been served since the last step of the environment.
NoResponse == [status |-> 0]

\* HTTPException(status_code, detail)
HTTPException(status_code, detail) ==
    [status |-> status_code, detail |-> detail]

\* The framework's answer to a body that fails the route's model.
ValidationError == [status |-> 422, detail |-> "validation error"]

\* response_model=Vehicle: the declared fields of the returned item.
VehicleResponse(it) == [f \in VehicleFields |-> it[f]]

\* The identifier read under the wrong key: str(it.get("id")) is "None".
StringifyId_WrongKey(it) ==
    IF "_id" \in DOMAIN it
    THEN [it EXCEPT !["_id"] = <<"N", "o", "n", "e">>]
    ELSE it

\* if it.get("_id"): it["_id"] = str(it["_id"])
StringifyId(it) ==
    IF "_id" \in DOMAIN it
    THEN [it EXCEPT !["_id"] = ObjectIdStr(@)]
    ELSE it

\* GET /
read_root ==
    /\ req' = [op |-> "read_root"]
    /\ resp' = [status |-> 200,
                body |-> [message |-> "Black Label Luxury Rentals API running"]]
    /\ UNCHANGED <<store, now, process, disk>>

\* A value of the "database" field: a text, and the part of an error
\* message that follows it.
Text(s) == [text |-> s, detail |-> <<>>]

\* The number of characters of an error that the diagnostics keep.
ErrCut == 80

\* The number of collection names that the diagnostics list.
MaxListed == 10

\* The error in full: f"... Error: {str(e)}"
ErrorText_Uncut(s, e) == [text |-> s, detail |-> e]

\* f"... Error: {str(e)[:80]}"
ErrorText(s, e) == [text |-> s, detail |-> Take(e, ErrCut)]

\* GET /test.  `outcome` is what db.list_collection_names() does when it is
\* called: it returns names, or raises an error with message outcome.e.
test_database(outcome) ==
    LET response0 ==
            [backend |-> "Running", database |-> Text("Not Available"),
             database_url |-> None, database_name |-> None,
             connection_status |-> "Not Connected", collections |-> <<>>]
        response1 ==
            [response0 EXCEPT
                !.database = Text("Available"),
                !.database_url =
                    IF environ.DATABASE_URL # None THEN "Set" ELSE "Not Set",
                !.database_name =
                    IF environ.DATABASE_NAME # None
                    THEN environ.DATABASE_NAME ELSE "Not Set"]
        response ==
            IF db # None
            THEN IF outcome.kind = "names"
                 THEN [response1 EXCEPT
                          !.collections = Take(outcome.names, MaxListed),
                          !.database = Text("Connected & Working"),
                          !.connection_status = "Connected"]
                 ELSE [response1 EXCEPT
                          !.database = ErrorText("Connected but Error: ", outcome.e)]
            ELSE [response0 EXCEPT
                     !.database = Text("Available but not initialized")]
    IN /\ req' = [op |-> "test_database", outcome |-> outcome]
       /\ resp' = [status |-> 200, body |-> response]
       /\ UNCHANGED <<store, now, process, disk>>

\* The filter mapping list_vehicles builds: a filter that is None or empty
\* adds no condition.
VehicleFilters(make, type, drive_mode) ==
    LET fields == (IF make # NoMake /\ make # <<>> THEN {"make"} ELSE {})
                  \cup (IF type # None /\ type # "" THEN {"type"} ELSE {})
                  \cup (IF drive_mode # None /\ drive_mode # ""
                        THEN {"drive_mode"} ELSE {})
    IN [f \in fields |->
           CASE f = "make" -> Regex(<<"^">> \o make \o <<"$">>)
             [] f = "type" -> Eq(type)
             [] f = "drive_mode" -> Eq(drive_mode)]

\* GET /api/vehicles?make=&type=&drive_mode=
list_vehicles(make, type, drive_mode) ==
    LET filters == VehicleFilters(make, type, drive_mode)
        found == get_documents(vehicle, filters, NoLimit)
        items == [i \in 1..Len(found) |-> StringifyId(found[i])]
    IN /\ req' = [op |-> "list_vehicles", make |-> make, type |-> type,
                  drive_mode |-> drive_mode]
       /\ resp' = [status |-> 200, result |-> items,
                   body |-> [i \in 1..Len(items) |-> VehicleResponse(items[i])]]
       /\ UNCHANGED <<store, now, process, disk>>

\* The limit get_vehicle passes to get_documents.
SlugLimit == 1

\* The query without its filter: {}
SlugFilter_Dropped(slug) == [f \in {} |-> Eq(slug)]

\* The filter get_vehicle passes to get_documents: {"slug": slug}
SlugFilter(slug) == [slug |-> Eq(slug)]

\* GET /api/vehicles/{slug}
get_vehicle(slug) ==
    LET res == get_documents(vehicle, SlugFilter(slug), SlugLimit)
        it == StringifyId(res[1])
    IN /\ req' = [op |-> "get_vehicle", slug |-> slug]
       /\ resp' = IF res = <<>>
                  THEN HTTPException(404, "Vehicle not found")
                  ELSE [status |-> 200, result |-> it, body |-> VehicleResponse(it)]
       /\ UNCHANGED <<store, now, process, disk>>

\* datetime.utcnow().isoformat()
IsoFormat(t) == <<"1970-01-01T00:00:0", t>>

\* The payload with the contact's e-mail taken from the phone field.
LeadPayload_EmailFromPhone(request, t) ==
    [f \in QuotePayloadFields \cup {"contact", "received_at"} |->
        CASE f = "contact" ->
                [first_name |-> request.first_name,
                 last_name |-> request.last_name,
                 email |-> request.phone,
                 phone |-> request.phone,
                 preferred_contact |-> request.preferred_contact]
          [] f = "received_at" -> IsoFormat(t)
          [] OTHER -> request.payload[f]]

\* The payload create_lead stores: the dumped quote payload, the contact
\* fields and the time of receipt.
LeadPayload(request, t) ==
    [f \in QuotePayloadFields \cup {"contact", "received_at"} |->
        CASE f = "contact" ->
                [first_name |-> request.first_name,
                 last_name |-> request.last_name,
                 email |-> request.email,
                 phone |-> request.phone,
                 preferred_contact |-> request.preferred_contact]
          [] f = "received_at" -> IsoFormat(t)
          [] OTHER -> request.payload[f]]

\* POST /api/lead
create_lead(body) ==
    /\ req' = [op |-> "create_lead", body |-> body]
    /\ IF ~QuoteRequestValid(body)
       THEN /\ resp' = ValidationError
            /\ UNCHANGED store
       ELSE LET data == Lead("web", "quote", LeadPayload(QuoteRequest(body), now))
            IN /\ Len(lead) < MaxLeads
               /\ lead' = create_document(lead, data)
               /\ nextOid' = nextOid + 1
               /\ resp' = [status |-> 200,
                           body |-> [ok |-> TRUE, id |-> ObjectIdStr(nextOid)]]
               /\ UNCHANGED <<vehicle, booking>>
    /\ UNCHANGED <<now, process, disk>>

\* The rule with the drive mode misspelt ("self_drive"): it refuses nothing.
AgeUnconfirmed_Misspelt(b) ==
    b["drive_mode"] = "self_drive" /\ ~b["driver_age_confirmed"]

\* The business rule of submit_booking: the bookings it refuses.
AgeUnconfirmed(b) ==
    b["drive_mode"] = "self-drive" /\ ~b["driver_age_confirmed"]

\* submit_booking with the insert before the age rule: a refused booking
\* is stored all the same.
submit_booking_InsertFirst(body) ==
    /\ req' = [op |-> "submit_booking", body |-> body]
    /\ IF ~BookingValid(body)
       THEN /\ resp' = ValidationError
            /\ UNCHANGED store
       ELSE /\ Len(booking) < MaxBookings
            /\ booking' = create_document(booking, Booking(body))
            /\ nextOid' = nextOid + 1
            /\ resp' = IF AgeUnconfirmed(Booking(body))
                       THEN HTTPException(400, "Driver age must be confirmed for self-drive")
                       ELSE [status |-> 200,
                             body |-> [ok |-> TRUE, id |-> ObjectIdStr(nextOid)]]
            /\ UNCHANGED <<vehicle, lead>>
    /\ UNCHANGED <<now, process, disk>>

\* POST /api/bookings
submit_booking(body) ==
    /\ req' = [op |-> "submit_booking", body |-> body]
    /\ IF ~BookingValid(body)
       THEN /\ resp' = ValidationError
            /\ UNCHANGED store
       ELSE IF AgeUnconfirmed(Booking(body))
       THEN /\ resp' = HTTPException(400, "Driver age must be confirmed for self-drive")
            /\ UNCHANGED store
       ELSE /\ Len(booking) < MaxBookings
            /\ booking' = create_document(booking, Booking(body))
            /\ nextOid' = nextOid + 1
            /\ resp' = [status |-> 200,
                        body |-> [ok |-> TRUE, id |-> ObjectIdStr(nextOid)]]
            /\ UNCHANGED <<vehicle, lead>>
    /\ UNCHANGED <<now, process, disk>>

\* GET /schema
get_schema ==
    /\ req' = [op |-> "get_schema"]
    /\ resp' = [status |-> 200,
                body |-> [name \in SCHEMA_MODELS |-> <<"model_json_schema", name>>]]
    /\ UNCHANGED <<store, now, process, disk>>

----------------------------------------------------------------------------
(* The environment of the handlers.                                        *)

\* A writer outside the API adds a vehicle to the store; nothing checks
\* that its slug is new.
SeedVehicle(v) ==
    /\ Len(vehicle) < MaxVehicles
    /\ vehicle' = create_document(vehicle, v)
    /\ nextOid' = nextOid + 1
    /\ req' = [op |-> "SeedVehicle"]
    /\ resp' = NoResponse
    /\ UNCHANGED <<booking, lead, now, process, disk>>

\* Time passes.
Tick ==
    /\ now < MaxClock
    /\ now' = now + 1
    /\ req' = [op |-> "Tick"]
    /\ resp' = NoResponse
    /\ UNCHANGED <<store, process, disk>>

----------------------------------------------------------------------------
(* POST /api/upload.  upload_file is a coroutine: it awaits file.read(),   *)
(* and once resumed runs to its return without another await, on the one   *)
(* event loop that uvicorn.run gives the application.                      *)

Coroutines == 1..MaxInFlight

\* A file that does not exist.
Absent == <<-1>>

Idle == [pc |-> "idle"]

\* Handlers on threads of their own: any of them may step at any time.
Runnable_Threads(p) == TRUE

\* May coroutine p take its next step?  Only when no other coroutine is
\* between two await points.
Runnable(p) == loop = {}

\* filename = file.filename or "upload.bin"
Filename(file) ==
    IF file.filename = None \/ file.filename = "" THEN "upload.bin"
    ELSE file.filename

\* open(temp_path, "wb"): the file exists and is empty.
Truncated == <<>>

\* f.write(contents) on a file just opened: the bytes go to offset 0.
Written(old, contents) ==
    contents \o SubSeq(old, Len(contents) + 1, Len(old))

\* The request arrives; the coroutine starts and awaits file.read().
upload_file_await(p, file) ==
    /\ up[p].pc = "idle"
    /\ Runnable(p)
    /\ up' = [up EXCEPT ![p] = [pc |-> "read", file |-> file]]
    /\ UNCHANGED <<store, now, process, req, resp, files, loop, lastWrite>>

\* contents = await file.read() completes; the coroutine resumes and opens
\* the file.
upload_file_open(p) ==
    /\ up[p].pc = "read"
    /\ Runnable(p)
    /\ loop' = {p}
    /\ files' = [files EXCEPT ![Filename(up[p].file)] = Truncated]
    /\ up' = [up EXCEPT ![p].pc = "write"]
    /\ UNCHANGED <<store, now, process, req, resp, lastWrite>>

\* f.write(contents), and the end of the with block.
upload_file_write(p) ==
    /\ up[p].pc = "write"
    /\ LET filename == Filename(up[p].file)
       IN /\ files' = [files EXCEPT
                          ![filename] = Written(@, up[p].file.contents)]
          /\ lastWrite' = [lastWrite EXCEPT ![filename] = up[p].file.contents]
    /\ up' = [up EXCEPT ![p].pc = "return"]
    /\ UNCHANGED <<store, now, process, req, resp, loop>>

\* return {"url": f"https://files.local/{filename}"}
upload_file_return(p) ==
    /\ up[p].pc = "return"
    /\ loop' = loop \ {p}
    /\ req' = [op |-> "upload_file", filename |-> up[p].file.filename]
    /\ resp' = [status |-> 200,
                body |-> [url |-> <<"https://files.local/", Filename(up[p].file)>>]]
    /\ up' = [up EXCEPT ![p] = Idle]
    /\ UNCHANGED <<store, now, process, files, lastWrite>>

----------------------------------------------------------------------------
(* Inputs.                                                                 *)

Slugs == {"urus-2024", "roma-2023"}

\* The vehicles a writer may add.
Profiles ==
    {[type |-> "suv", drive_mode |-> "both", year |-> 2024],
     [type |-> "sedan", drive_mode |-> "both", year |-> 2023],
     [type |-> "suv", drive_mode |-> "chauffeur", year |-> 2023]}

Vehicles ==
    {[slug |-> s, year |-> p.year, make |-> m, type |-> p.type,
      drive_mode |-> p.drive_mode] :
        s \in Slugs, m \in {<<"f">>, <<"f", "e">>}, p \in Profiles}

\* Two vehicles that share a slug and one that does not.
SampleVehicles ==
    {[slug |-> "urus-2024", year |-> 2024, make |-> <<"f">>, type |-> "suv",
      drive_mode |-> "both"],
     [slug |-> "urus-2024", year |-> 2023, make |-> <<"F", "e">>, type |-> "sedan",
      drive_mode |-> "chauffeur"]}

\* The filter strings of a request: absent, empty, or a pattern that compiles.
MakeFilters == {NoMake, <<"F">>, <<".">>}

TypeFilters == {None, "", "suv"}

DriveModeFilters == {None, "both"}

AllMakeFilters == {m \in StringsUpTo(Chars, MaxMakeLen) : Compiles(m)}

StoredMakes == StringsUpTo(Chars, MaxStoredMakeLen) \ {<<>>}

\* The required fields of a booking.
BookingBase ==
    [vehicle_id |-> "v1", first_name |-> "A", last_name |-> "B",
     email |-> "a@b.com", phone |-> "123", start_date |-> "2026-01-01",
     end_date |-> "2026-01-02"]

\* The optional fields a body may set; a field mapped to the empty set is
\* left out of the body.
Optional(field, values) ==
    {[f \in {} |-> None]} \cup {field :> v : v \in values}

\* Every body over the fields the business rule and the status depend on,
\* and one body that fails validation.
Bookings ==
    {BookingBase @@ d @@ a @@ st :
        d \in Optional("drive_mode", BookingDriveModes),
        a \in Optional("driver_age_confirmed", BOOLEAN),
        st \in Optional("status", BookingStatuses)}
    \cup {BookingBase @@ ("status" :> "paid")}

SampleBookings ==
    {BookingBase,
     BookingBase @@ ("drive_mode" :> "self-drive"),
     BookingBase @@ ("drive_mode" :> "self-drive") @@ ("driver_age_confirmed" :> TRUE)
                 @@ ("status" :> "approved"),
     BookingBase @@ ("status" :> "paid")}

ContactBase == [first_name |-> "A", last_name |-> "B", phone |-> "123"]

\* Quote payloads: empty, with declared fields, and with a key that
\* QuotePayload does not declare.
QuotePayloads ==
    {[f \in {} |-> None],
     [vehicle_slug |-> "x"],
     [vehicle_slug |-> "x", addons |-> <<"chauffeur">>],
     [vehicle_slug |-> "x", budget |-> "5000"]}

Leads ==
    {ContactBase @@ ("email" :> e) @@ c @@ ("payload" :> q) :
        e \in {"a@b.com", "c@d.com"},
        c \in Optional("preferred_contact", {"email"}),
        q \in QuotePayloads}
    \cup {ContactBase @@ ("email" :> "a@b.com")}

SampleLeads ==
    {ContactBase @@ ("email" :> "a@b.com") @@ ("payload" :> [vehicle_slug |-> "x"]),
     ContactBase @@ ("email" :> "a@b.com")}

\* What db.list_collection_names() may do.
Names(n) == [i \in 1..n |-> <<"collection", i>>]

Message(n) == [i \in 1..n |-> "x"]

ListOutcomes ==
    {[kind |-> "names", names |-> Names(n)] : n \in 0..MaxCollections}
    \cup {[kind |-> "raise", e |-> Message(n)] : n \in 0..MaxErrLen}

SampleListOutcomes ==
    {[kind |-> "names", names |-> Names(3)], [kind |-> "raise", e |-> Message(3)]}

Environments == [DATABASE_URL : {None, "mongodb://"}, DATABASE_NAME : {None, "lux"}]

Filenames == {"upload.bin", "a.png"}

\* The files coroutine p may be sent: its bytes are all p.
Uploads(p) ==
    [filename : Filenames \cup {None},
     contents : {[i \in 1..k |-> p] : k \in 0..MaxBytes}]

----------------------------------------------------------------------------
(* Specifications.                                                         *)

\* The state after import: empty collections, a store handle, no upload.
Init ==
    /\ vehicle = <<>> /\ booking = <<>> /\ lead = <<>>
    /\ nextOid = 1
    /\ now = 0
    /\ db = "handle"
    /\ environ = [DATABASE_URL |-> "mongodb://", DATABASE_NAME |-> "lux"]
    /\ req = [op |-> None] /\ resp = NoResponse
    /\ files = [f \in Filenames |-> Absent]
    /\ up = [p \in Coroutines |-> Idle]
    /\ loop = {}
    /\ lastWrite = [f \in Filenames |-> Absent]

\* The whole API, every handler on a few inputs.
Next ==
    \/ read_root
    \/ \E o \in SampleListOutcomes : test_database(o)
    \/ \E m \in {<<>>, <<"f">>} : list_vehicles(m, None, "both")
    \/ \E slug \in Slugs : get_vehicle(slug)
    \/ \E body \in SampleLeads : create_lead(body)
    \/ \E body \in SampleBookings : submit_booking(body)
    \/ get_schema
    \/ \E v \in SampleVehicles : SeedVehicle(v)

Spec == Init /\ [][Next]_vars

\* Bookings: every body of Bookings, and the reading handlers around them.
NextBooking ==
    \/ \E body \in Bookings : submit_booking(body)
    \/ \E slug \in Slugs : get_vehicle(slug)
    \/ list_vehicles(NoMake, None, None)
    \/ read_root
    \/ get_schema
    \/ \E o \in SampleListOutcomes : test_database(o)

SpecBooking == Init /\ [][NextBooking]_vars

\* Leads: every body of Leads, at any time.
NextLead ==
    \/ \E body \in Leads : create_lead(body)
    \/ Tick

SpecLead == Init /\ [][NextLead]_vars

\* The catalog: vehicles are added, listed and fetched.
NextCatalog ==
    \/ \E v \in Vehicles : SeedVehicle(v)
    \/ \E m \in MakeFilters, t \in TypeFilters, d \in DriveModeFilters :
          list_vehicles(m, t, d)
    \/ \E slug \in Slugs : get_vehicle(slug)

SpecCatalog == Init /\ [][NextCatalog]_vars

\* The make filter: one stored vehicle of any make, any filter string.
InitMake ==
    /\ \E s \in StoredMakes :
          vehicle = <<Document([slug |-> "urus-2024", year |-> 2024, make |-> s,
                                type |-> "suv", drive_mode |-> "both"], 1)>>
    /\ booking = <<>> /\ lead = <<>>
    /\ nextOid = 2
    /\ now = 0
    /\ db = "handle"
    /\ environ = [DATABASE_URL |-> "mongodb://", DATABASE_NAME |-> "lux"]
    /\ req = [op |-> None] /\ resp = NoResponse
    /\ files = [f \in Filenames |-> Absent]
    /\ up = [p \in Coroutines |-> Idle]
    /\ loop = {}
    /\ lastWrite = [f \in Filenames |-> Absent]

NextMake == \E m \in AllMakeFilters : list_vehicles(m, None, None)

SpecMake == InitMake /\ [][NextMake]_vars

\* The diagnostics, with and without a store handle.
InitDiag ==
    /\ vehicle = <<>> /\ booking = <<>> /\ lead = <<>>
    /\ nextOid = 1
    /\ now = 0
    /\ db \in {None, "handle"}
    /\ environ \in Environments
    /\ req = [op |-> None] /\ resp = NoResponse
    /\ files = [f \in Filenames |-> Absent]
    /\ up = [p \in Coroutines |-> Idle]
    /\ loop = {}
    /\ lastWrite = [f \in Filenames |-> Absent]

NextDiag == \E o \in ListOutcomes : test_database(o)

SpecDiag == InitDiag /\ [][NextDiag]_vars

\* Uploads: MaxInFlight requests at a time, each coroutine step by step.
NextUpload ==
    \E p \in Coroutines :
        \/ \E file \in Uploads(p) : upload_file_await(p, file)
        \/ upload_file_open(p)
        \/ upload_file_write(p)
        \/ upload_file_return(p)

SpecUpload == Init /\ [][NextUpload]_vars

----------------------------------------------------------------------------
(* Properties.                                                             *)

\* The last document of a collection.
Last(collection) == collection[Len(collection)]

\* A collection after a step holds the documents it held, unchanged and in
\* their places.
Kept(old, new) ==
    Len(new) >= Len(old) /\ \A i \in 1..Len(old) : new[i] = old[i]

\* A collection after a step holds one document more.
OneAdded(old, new) == Len(new) = Len(old) + 1 /\ Kept(old, new)

\* A booking body that asks for self-drive.
SelfDrive(body) ==
    "drive_mode" \in DOMAIN body /\ body["drive_mode"] = "self-drive"

\* A booking body that confirms the driver's age.
Confirmed(body) ==
    "driver_age_confirmed" \in DOMAIN body /\ body["driver_age_confirmed"]

\* C1: a self-drive booking without the age confirmation is answered 400
\* and adds nothing to the booking collection; a self-drive booking with it
\* is answered {ok: true, id}, adds one record whose identifier is the id
\* returned, and the record's status is "new" when the body gives none.
C1_SelfDriveNeedsAgeConfirmation ==
    [][(/\ req'.op = "submit_booking"
        /\ BookingValid(req'.body)
        /\ SelfDrive(req'.body))
       => IF Confirmed(req'.body)
          THEN /\ resp'.status = 200
               /\ resp'.body.ok
               /\ OneAdded(booking, booking')
               /\ resp'.body.id = ObjectIdStr(Last(booking')["_id"])
               /\ "status" \notin DOMAIN req'.body
                     => Last(booking')["status"] = "new"
          ELSE /\ resp'.status = 400
               /\ booking' = booking]_vars

\* C1, reached: a self-drive booking with the confirmation and no status is
\* stored with status "new", and one without the confirmation has just been
\* answered 400.
C1_Witness ==
    /\ req.op = "submit_booking"
    /\ SelfDrive(req.body) /\ ~Confirmed(req.body)
    /\ resp.status = 400
    /\ Len(booking) = 1
    /\ booking[1]["drive_mode"] = "self-drive"
    /\ booking[1]["driver_age_confirmed"]
    /\ booking[1]["status"] = "new"

\* C2: get_vehicle answers 404 exactly when no stored vehicle has the slug
\* asked for, and otherwise returns one vehicle, whose slug is that slug.
C2_GetVehicleBySlug ==
    req.op = "get_vehicle"
    => IF \E i \in 1..Len(vehicle) : vehicle[i]["slug"] = req.slug
       THEN /\ resp.status = 200
            /\ resp.body["slug"] = req.slug
            /\ resp.result["slug"] = req.slug
       ELSE resp.status = 404

\* C2, reached: two stored vehicles share the slug that was fetched.
C2_Witness ==
    /\ req.op = "get_vehicle"
    /\ resp.status = 200
    /\ Len(vehicle) = 2
    /\ vehicle[1]["slug"] = req.slug
    /\ vehicle[2]["slug"] = req.slug
    /\ vehicle[1]["make"] # vehicle[2]["make"]

\* The fields of a stored vehicle, as the response carries them.
SameFields(body, doc) == \A f \in VehicleFields : body[f] = doc[f]

SameMake(a, b) == LowerStr(a) = LowerStr(b)

\* The stored vehicles that a listing returned, by their identifiers.
Listed == {resp.result[i]["_id"] : i \in 1..Len(resp.result)}

\* C4: with a make filter that is not empty, a stored vehicle is listed if
\* and only if its make equals the filter but for letter case.
C4_MakeFilterIsExactIgnoringCase ==
    (/\ req.op = "list_vehicles"
     /\ req.make # NoMake /\ req.make # <<>>
     /\ req.type = None /\ req.drive_mode = None)
    => \A i \in 1..Len(vehicle) :
          ObjectIdStr(vehicle[i]["_id"]) \in Listed
          <=> SameMake(vehicle[i]["make"], req.make)

\* C4, reached: a filter that differs from the stored make in letter case
\* only has listed the vehicle.
C4_Witness ==
    /\ req.op = "list_vehicles"
    /\ req.make = <<"F", "e">>
    /\ vehicle[1]["make"] = <<"f", "e">>
    /\ Len(resp.result) = 1

\* C5: the diagnostics always answer 200; when listing the collections
\* raises, "database" carries the first 80 characters of the error at most
\* and the status stays "Not Connected"; the status is "Connected" only
\* when the listing succeeded; "collections" holds the first 10 names at
\* most.
C5_DiagnosticsNeverFail ==
    req.op = "test_database"
    => LET r == resp.body
           o == req.outcome
       IN /\ resp.status = 200
          /\ (db # None /\ o.kind = "raise")
                => /\ Len(r.database.detail) <= 80
                   /\ Len(r.database.detail) <= Len(o.e)
                   /\ (Len(o.e) <= 80 => r.database.detail = o.e)
                   /\ \A i \in 1..Len(r.database.detail) :
                         r.database.detail[i] = o.e[i]
                   /\ r.connection_status = "Not Connected"
          /\ r.connection_status = "Connected"
                <=> (db # None /\ o.kind = "names")
          /\ r.connection_status \in {"Connected", "Not Connected"}
          /\ Len(r.collections) <= 10
          /\ r.connection_status = "Connected"
                => /\ Len(r.collections) = Min(10, Len(o.names))
                   /\ \A i \in 1..Len(r.collections) :
                         r.collections[i] = o.names[i]
          /\ r.connection_status # "Connected" => r.collections = <<>>

\* C5, reached: listing raised an error longer than 80 characters.
C5_Witness ==
    /\ req.op = "test_database"
    /\ db # None
    /\ req.outcome.kind = "raise"
    /\ Len(req.outcome.e) > 80
    /\ Len(resp.body.database.detail) = 80

\* What C6 says of a stored lead but for the submitted payload.
LeadStored(body) ==
    /\ resp'.status = 200
    /\ resp'.body.ok
    /\ OneAdded(lead, lead')
    /\ resp'.body.id = ObjectIdStr(Last(lead')["_id"])
    /\ Last(lead')["source"] = "web"
    /\ Last(lead')["form_type"] = "quote"
    /\ Last(lead')["status"] = "new"
    /\ LET stored == Last(lead')["payload"]
       IN /\ {"contact", "received_at"} \subseteq DOMAIN stored
          /\ stored["received_at"] = IsoFormat(now)
          /\ DOMAIN stored["contact"] =
                {"first_name", "last_name", "email", "phone", "preferred_contact"}
          /\ \A f \in {"first_name", "last_name", "email", "phone"} :
                stored["contact"][f] = body[f]
          /\ stored["contact"]["preferred_contact"] =
                IF "preferred_contact" \in DOMAIN body
                THEN body["preferred_contact"] ELSE "whatsapp"

C7_BookingStoredAsSubmitted ==
    [][/\ Kept(booking, booking')
       /\ (/\ req'.op = "submit_booking"
           /\ BookingValid(req'.body)
           /\ ~(SelfDrive(req'.body) /\ ~Confirmed(req'.body)))
          => /\ resp'.status = 200
             /\ OneAdded(booking, booking')
             /\ \A f \in DOMAIN req'.body : Last(booking')[f] = req'.body[f]
             /\ Last(booking')["status"] =
                   IF "status" \in DOMAIN req'.body
                   THEN req'.body["status"] ELSE "new"]_vars

\* C7, reached: a chauffeur booking without age confirmation was stored
\* with the status its caller gave, and another request was served since.
C7_Witness ==
    /\ req.op = "get_vehicle"
    /\ Len(booking) = 1
    /\ booking[1]["drive_mode"] = "chauffeur"
    /\ ~booking[1]["driver_age_confirmed"]
    /\ booking[1]["status"] = "declined"

\* The name an upload is stored under.
StoredAs(filename) == IF filename = None THEN "upload.bin" ELSE filename

ReadOps == {"read_root", "test_database", "list_vehicles", "get_vehicle", "get_schema"}

\* C9: no step removes or changes a stored record; the read handlers and
\* every refused request leave the three collections as they were; a lead or
\* booking that is accepted adds one record to its own collection and leaves
\* the other two as they were.
C9_StoreOnlyGrows ==
    [][/\ Kept(vehicle, vehicle') /\ Kept(booking, booking') /\ Kept(lead, lead')
       /\ (req'.op \in ReadOps \/ resp'.status \in {400, 404, 422})
          => <<vehicle, booking, lead>>' = <<vehicle, booking, lead>>
       /\ (req'.op = "create_lead" /\ resp'.status = 200)
          => /\ OneAdded(lead, lead')
             /\ vehicle' = vehicle /\ booking' = booking
       /\ (req'.op = "submit_booking" /\ resp'.status = 200)
          => /\ OneAdded(booking, booking')
             /\ vehicle' = vehicle /\ lead' = lead]_vars

\* C9, reached: with a record in every collection, a booking was refused.
C9_Witness ==
    /\ Len(vehicle) >= 1 /\ Len(booking) = 1 /\ Len(lead) = 1
    /\ req.op = "submit_booking"
    /\ resp.status = 400

\* Is a filter given?
Given(filter) == filter # None /\ filter # ""

\* C10: a listing returns exactly the stored vehicles, in store order, that
\* satisfy every filter given: the make but for letter case, the type and
\* the drive mode exactly; an absent or empty filter constrains nothing.
C10_ListIsConjunctionOfFilters ==
    req.op = "list_vehicles"
    => LET Wanted(doc) ==
               /\ (req.make # NoMake /\ req.make # <<>>)
                     => SameMake(doc["make"], req.make)
               /\ Given(req.type) => doc["type"] = req.type
               /\ Given(req.drive_mode) => doc["drive_mode"] = req.drive_mode
           wanted == SelectSeq(vehicle, Wanted)
       IN /\ resp.status = 200
          /\ Len(resp.body) = Len(wanted)
          /\ \A i \in 1..Len(wanted) : SameFields(resp.body[i], wanted[i])

\* C10, reached: two filters together select one of two stored vehicles that
\* each satisfy one of them.
C10_Witness ==
    /\ req.op = "list_vehicles"
    /\ req.type = "suv" /\ req.drive_mode = "both" /\ req.make = NoMake
    /\ Len(vehicle) = 2
    /\ vehicle[1]["type"] = "sedan" /\ vehicle[1]["drive_mode"] = "both"
    /\ vehicle[2]["type"] = "suv" /\ vehicle[2]["drive_mode"] = "both"
    /\ Len(resp.body) = 1

====
